---------------------------- MODULE Spec2Model ----------------------------
(***************************************************************************)
(* Model of scripts/audit-claude-configs.py and scripts/fix-claude-configs.py *)
(* of raibid-labs/workspace: the repository classifier, the per-repository *)
(* audit (check_config), the per-repository fix (fix_repository) and the   *)
(* two batch drivers (the two main functions).                             *)
(*                                                                         *)
(* Strings that the code searches or builds are sequences of segments, so  *)
(* that `needle in s`, s.startswith(p) and f-strings are computed, not     *)
(* assumed.  A JSON value is a tagged record; a JSON file is its kind, its *)
(* member list in text order (duplicate keys allowed) and its layout.      *)
(***************************************************************************)
EXTENDS Integers, Sequences, FiniteSets, TLC

VARIABLES
    (* classifier harness *)
    c_name, c_dir, c_type,
    (* single-repository harness: one repository, a log of calls *)
    u_name, u_dir, u_before, u_log,
    (* batch drivers: the filesystem, the report file and the running process *)
    fs, report, pc, results, to_fix, idx, dry_run, counts, calls, exit_code,
    fs0, first_audit, chain, fresh, env_changes

vars == <<c_name, c_dir, c_type, u_name, u_dir, u_before, u_log,
          fs, report, pc, results, to_fix, idx, dry_run, counts, calls,
          exit_code, fs0, first_audit, chain, fresh, env_changes>>

classify_vars == <<c_name, c_dir, c_type>>
unit_vars == <<u_name, u_dir, u_before, u_log>>
batch_vars == <<fs, report, pc, results, to_fix, idx, dry_run, counts, calls,
                exit_code, fs0, first_audit, chain, fresh, env_changes>>

\* what a step of one harness leaves alone
not_classify_vars == <<unit_vars, batch_vars>>
not_unit_vars == <<classify_vars, batch_vars>>
not_batch_vars == <<classify_vars, unit_vars>>

----------------------------------------------------------------------------
(* Bounds of the model *)

\* longest member list of a config file drawn by Init
MaxMembers == 2
\* most keys in one dependencies / devDependencies object drawn by Init
MaxDeps == 1
\* most calls logged by the single-repository harness
MaxCalls == 3
\* most outside changes of the filesystem between runs of the batch drivers
MaxEnvChanges == 1

SeqsUpTo(S, n) == UNION {[1..k -> S] : k \in 0..n}

----------------------------------------------------------------------------
(* JSON values and Python's operations on them *)

Str(segs) == [t |-> "str", v |-> segs]
Null == [t |-> "null", v |-> <<>>]
Num(d) == [t |-> "num", v |-> <<d>>]
List(elems) == [t |-> "list", v |-> elems]
\* an object value: v alternates key, value
Obj(kv) == [t |-> "obj", v |-> kv]

ObjKeys(x) == {x.v[i] : i \in {j \in 1..Len(x.v) : j % 2 = 1}}

\* Python's `needle in x`: substring of a str, element of a list, key of a
\* dict; a TypeError for a number, null or a bool.
PyIn(needle, x) ==
    CASE x.t = "str" -> IF \E i \in 1..Len(x.v) : x.v[i] = needle THEN "True" ELSE "False"
      [] x.t = "list" -> IF \E i \in 1..Len(x.v) : x.v[i] = needle THEN "True" ELSE "False"
      [] x.t = "obj" -> IF needle \in ObjKeys(x) THEN "True" ELSE "False"
      [] OTHER -> "TypeError"

\* Python's truth value of a str, list or dict: non-empty.
PyTruthy(x) == Len(x.v) > 0

\* str(x) as an f-string renders it.
PyFormat(x) ==
    CASE x.t = "str" -> x.v
      [] x.t = "list" -> <<"[">> \o x.v \o <<"]">>
      [] x.t = "obj" -> <<"{">> \o x.v \o <<"}">>
      [] OTHER -> x.v

(* A Python dict: a sequence of <<key, value>> with distinct keys, in
   insertion order. *)
DictHas(d, k) == \E i \in 1..Len(d) : d[i][1] = k

DictKeys(d) == {d[i][1] : i \in 1..Len(d)}

DictAt(d, k) == d[CHOOSE i \in 1..Len(d) : d[i][1] = k][2]

\* d.get(k, default)
dict_get(d, k, default) == IF DictHas(d, k) THEN DictAt(d, k) ELSE default

\* d[k] = v: in place when the key is there, appended otherwise
dict_set(d, k, v) ==
    IF DictHas(d, k)
    THEN [i \in 1..Len(d) |-> IF d[i][1] = k THEN <<k, v>> ELSE d[i]]
    ELSE Append(d, <<k, v>>)

(* Files.  kind: "absent", "isdir" (the path exists and is a directory, so
   open() raises IsADirectoryError), "garbage" (text json.load rejects),
   "scalar" (valid JSON that is no object) or "object". *)
NoFile == [kind |-> "absent", members |-> <<>>, fmt |-> "none"]
DirFile == [kind |-> "isdir", members |-> <<>>, fmt |-> "none"]
GarbageFile == [kind |-> "garbage", members |-> <<>>, fmt |-> "text"]
ScalarFile == [kind |-> "scalar", members |-> <<>>, fmt |-> "text"]
ObjectFile(members) == [kind |-> "object", members |-> members, fmt |-> "text"]

RECURSIVE DictOfMembers(_)
\* the dict json.load builds from an object's members: the last duplicate wins
DictOfMembers(ms) ==
    IF ms = <<>> THEN <<>>
    ELSE LET n == Len(ms)
         IN dict_set(DictOfMembers(SubSeq(ms, 1, n - 1)), ms[n][1], ms[n][2])

\* a loader that reads text it cannot parse as an empty object
json_load_lenient(file) ==
    CASE file.kind = "isdir" -> [exc |-> "IsADirectoryError", isdict |-> FALSE, d |-> <<>>]
      [] file.kind = "garbage" -> [exc |-> "none", isdict |-> TRUE, d |-> <<>>]
      [] file.kind = "scalar" -> [exc |-> "none", isdict |-> FALSE, d |-> <<>>]
      [] OTHER -> [exc |-> "none", isdict |-> TRUE, d |-> DictOfMembers(file.members)]

\* with open(path) as f: json.load(f)
json_load(file) ==
    CASE file.kind = "isdir" -> [exc |-> "IsADirectoryError", isdict |-> FALSE, d |-> <<>>]
      [] file.kind = "garbage" -> [exc |-> "JSONDecodeError", isdict |-> FALSE, d |-> <<>>]
      [] file.kind = "scalar" -> [exc |-> "none", isdict |-> FALSE, d |-> <<>>]
      [] OTHER -> [exc |-> "none", isdict |-> TRUE, d |-> DictOfMembers(file.members)]

\* json.dump(config, f, indent=2); f.write("\n")
json_dump(config) == [kind |-> "object", members |-> config, fmt |-> "indent2+newline"]

----------------------------------------------------------------------------
(* Program constants *)

ORG == "raibid-labs"

BASE_CONFIG_URL ==
    <<"https://raw.githubusercontent.com/raibid-labs/", "workspace",
      "/main/.claude/", "base-project.json">>

\* repository names, as path segments
WorkspaceName == <<"workspace">>
Names == {<<"dgx-", "spark">>, <<"foo">>, WorkspaceName}

----------------------------------------------------------------------------
(* The classifier *)

SdkKey == "@modelcontextprotocol/sdk"
DocsKeys == {"vitepress", "docusaurus"}

\* deps = {**pkg.get("dependencies", {}), **pkg.get("devDependencies", {})}
\* as the set of its keys, or "TypeError" when either is no mapping
merged_deps_nodev(pkg) ==
    LET a == dict_get(pkg, "dependencies", Obj(<<>>))
    IN IF a.t # "obj" THEN [exc |-> "TypeError", keys |-> {}]
       ELSE [exc |-> "none", keys |-> ObjKeys(a)]

merged_deps(pkg) ==
    LET a == dict_get(pkg, "dependencies", Obj(<<>>))
        b == dict_get(pkg, "devDependencies", Obj(<<>>))
    IN IF a.t # "obj" \/ b.t # "obj" THEN [exc |-> "TypeError", keys |-> {}]
       ELSE [exc |-> "none", keys |-> ObjKeys(a) \cup ObjKeys(b)]

\* the package.json branch: every exception is swallowed by the bare except
package_type(file) ==
    LET r == json_load(file)
    IN IF r.exc # "none" THEN "library"
       ELSE IF ~r.isdict THEN "library"
       ELSE LET deps == merged_deps(r.d)
            IN IF deps.exc # "none" THEN "library"
               ELSE IF SdkKey \in deps.keys THEN "mcp-integration"
               ELSE IF \E x \in DocsKeys : x \in deps.keys THEN "typescript-docs"
               ELSE "library"

\* repo_dir.name.startswith("dgx-")
StartsWithDgx(name) == Len(name) >= 1 /\ name[1] = "dgx-"

detect_repo_type(repo_dir, name) ==
    LET l == repo_dir.listing
    IN IF l.cargo THEN "rust-service"
       ELSE IF l.pkg.kind # "absent" THEN package_type(l.pkg)
       ELSE IF l.pyproject \/ l.setup
            THEN IF StartsWithDgx(name) THEN "python-ml" ELSE "library"
       ELSE IF l.terraform = "dir" \/ l.k8s = "dir" THEN "iac-k8s"
       ELSE IF l.mkdocs THEN "docs"
       ELSE "library"

detect_primary_language(repo_type) ==
    CASE repo_type = "rust-service" -> "rust"
      [] repo_type = "python-ml" -> "python"
      [] repo_type = "typescript-docs" -> "typescript"
      [] repo_type = "mcp-integration" -> "typescript"
      [] repo_type = "iac-k8s" -> "hcl"
      [] repo_type = "docs" -> "markdown"
      [] OTHER -> "unknown"

----------------------------------------------------------------------------
(* Inputs of the classifier harness *)

DepKeyList == <<SdkKey, "vitepress", "docusaurus", "left-pad">>

\* key lists of at most MaxDeps keys, in the order of DepKeyList
DepKeyChoices ==
    {[i \in 1..Len(s) |-> DepKeyList[s[i]]] :
        s \in {q \in SeqsUpTo(1..Len(DepKeyList), MaxDeps) :
                  \A i \in 1..Len(q) - 1 : q[i] < q[i + 1]}}

ObjOfKeys(ks) ==
    Obj([i \in 1..2 * Len(ks) |-> IF i % 2 = 1 THEN ks[(i + 1) \div 2] ELSE "^1.0.0"])

\* what a dependencies / devDependencies member may hold
DepValues == {ObjOfKeys(ks) : ks \in DepKeyChoices}
                \cup {Null, List(<<SdkKey>>), Str(<<"vitepress">>)}

\* zero or one member for the key
OptionalMember(key, values) == {<<>>} \cup {<< <<key, val>> >> : val \in values}

PackageFiles ==
    {NoFile, DirFile, GarbageFile, ScalarFile}
      \cup {ObjectFile(a \o b) : a \in OptionalMember("dependencies", DepValues),
                                 b \in OptionalMember("devDependencies", DepValues)}

PathKinds == {"absent", "file", "dir"}

Listings ==
    [cargo : BOOLEAN, pkg : PackageFiles, pyproject : BOOLEAN, setup : BOOLEAN,
     terraform : PathKinds, k8s : PathKinds, mkdocs : BOOLEAN]

EmptyListing ==
    [cargo |-> FALSE, pkg |-> NoFile, pyproject |-> FALSE, setup |-> FALSE,
     terraform |-> "absent", k8s |-> "absent", mkdocs |-> FALSE]

\* a cloned repository without a .claude entry, with the given top-level listing
Checkout(listing) ==
    [exists |-> TRUE, listing |-> listing, claude |-> "absent", cfg |-> NoFile]

NotCloned ==
    [exists |-> FALSE, listing |-> EmptyListing, claude |-> "absent", cfg |-> NoFile]


----------------------------------------------------------------------------
(* The template builder of the fixer *)

\* a nested object of the template, rendered flat; the code never reads it back
Nested(flat) == [t |-> "nested", v |-> flat]

\* the classifier as the fixer's file repeats it
fix_detect_repo_type(repo_dir, name) == detect_repo_type(repo_dir, name)

fix_detect_primary_language(repo_type) == detect_primary_language(repo_type)

create_config_other_base(repo_name, repo_type) ==
    << <<"$schema", Str(<<"https://claude.ai/schemas/project-config.json">>)>>,
       <<"version", Str(<<"1.0.0">>)>>,
       <<"extends", Str(<<"https://raw.githubusercontent.com/raibid-labs/",
                          "workspace", "/main/.claude/", "project.json">>)>> >>

create_config(repo_name, repo_type) ==
    LET primary_lang == fix_detect_primary_language(repo_type)
    IN << <<"$schema", Str(<<"https://claude.ai/schemas/project-config.json">>)>>,
          <<"version", Str(<<"1.0.0">>)>>,
          <<"extends", Str(BASE_CONFIG_URL)>>,
          <<"description", Str(<<"Claude Code configuration for ">> \o repo_name)>>,
          <<"project", Nested(<<"name">> \o repo_name \o <<"type", repo_type,
                                "repository", "https://github.com/", ORG, "/">>
                                \o repo_name)>>,
          <<"language", Nested(<<"primary", primary_lang>>)>>,
          <<"customization", Nested(<<"mcpServers", "{}", "workflows", "{}",
                                      "agents", "[]">>)>> >>

----------------------------------------------------------------------------
(* Paths of a repository checkout *)

\* (repo_dir / ".claude" / "project.json").exists(): False as well when
\* .claude is a regular file (ENOTDIR)
ConfigExists(repo_dir) ==
    repo_dir.exists /\ repo_dir.claude = "dir" /\ repo_dir.cfg.kind # "absent"

----------------------------------------------------------------------------
(* The auditor: check_config *)

\* "workspace" in extends and "base-project.json" in extends
audit_extends_ok(extends) ==
    LET a == PyIn("workspace", extends)
    IN IF a # "True" THEN a ELSE PyIn("base-project.json", extends)

\* the try block over the config file, from the record built so far
check_extends(result, file) ==
    LET r == json_load(file)
        extends == dict_get(r.d, "extends", Str(<<>>))
        ok == audit_extends_ok(extends)
    IN IF r.exc = "JSONDecodeError"
       THEN [result EXCEPT !.status = "invalid_json",
                           !.issue = Str(<<"Invalid JSON in config file">>)]
       ELSE IF r.exc # "none"
       THEN [result EXCEPT !.status = "error", !.issue = Str(<<r.exc>>)]
       ELSE IF ~r.isdict
       THEN [result EXCEPT !.status = "error", !.issue = Str(<<"AttributeError">>)]
       ELSE IF ok = "TypeError"
       THEN [result EXCEPT !.status = "error", !.issue = Str(<<"TypeError">>)]
       ELSE IF ok = "True"
       THEN [result EXCEPT !.extends_base = TRUE, !.status = "ok"]
       ELSE IF PyTruthy(extends)
       THEN [result EXCEPT !.status = "wrong_extends",
                           !.issue = Str(<<"Extends: ">> \o PyFormat(extends))]
       ELSE [result EXCEPT !.status = "no_extends",
                           !.issue = Str(<<"No 'extends' field">>)]

\* check_config with the workspace test moved below the config tests
check_config_workspace_late(repo_name, repo_dir) ==
    LET result == [name |-> repo_name, cloned |-> repo_dir.exists,
                   has_config |-> ConfigExists(repo_dir), extends_base |-> FALSE,
                   repo_type |-> "None", status |-> "unknown", issue |-> Null]
    IN IF ~result.cloned THEN [result EXCEPT !.status = "not_cloned"]
       ELSE IF ~result.has_config
       THEN [result EXCEPT !.repo_type = detect_repo_type(repo_dir, repo_name),
                           !.status = "missing_config",
                           !.issue = Str(<<"No .claude/project.json found">>)]
       ELSE IF repo_name = WorkspaceName
       THEN [result EXCEPT !.status = "workspace",
                           !.issue = Str(<<"This is the base config repository">>)]
       ELSE check_extends([result EXCEPT !.repo_type =
                               detect_repo_type(repo_dir, repo_name)], repo_dir.cfg)

check_config(repo_name, repo_dir) ==
    LET result == [name |-> repo_name, cloned |-> repo_dir.exists,
                   has_config |-> ConfigExists(repo_dir), extends_base |-> FALSE,
                   repo_type |-> "None", status |-> "unknown", issue |-> Null]
        typed == [result EXCEPT !.repo_type = detect_repo_type(repo_dir, repo_name)]
    IN IF ~result.cloned THEN [result EXCEPT !.status = "not_cloned"]
       ELSE IF repo_name = WorkspaceName
       THEN [result EXCEPT !.status = "workspace",
                           !.issue = Str(<<"This is the base config repository">>)]
       ELSE IF ~result.has_config
       THEN [typed EXCEPT !.status = "missing_config",
                          !.issue = Str(<<"No .claude/project.json found">>)]
       ELSE check_extends(typed, repo_dir.cfg)

----------------------------------------------------------------------------
(* The fixer: fix_repository.  A call yields [out, exc, dir]: the label it
   returns, or the exception that leaves it, and the checkout afterwards. *)

Returns(label, repo_dir) == [out |-> label, exc |-> "none", dir |-> repo_dir]
Raises(exception, repo_dir) == [out |-> "none", exc |-> exception, dir |-> repo_dir]

\* "workspace" in extends and "base-project.json" in extends
fix_extends_ok(extends) ==
    LET a == PyIn("workspace", extends)
    IN IF a # "True" THEN a ELSE PyIn("base-project.json", extends)

\* the rewritten config replaced by a fresh one holding only extends
patch_extends_clobber(config) == << <<"extends", Str(BASE_CONFIG_URL)>> >>

\* config["extends"] = BASE_CONFIG_URL
patch_extends(config) == dict_set(config, "extends", Str(BASE_CONFIG_URL))

\* the create-or-fix branch of fix_repository
create_or_fix(repo_name, repo_dir, dryrun) ==
    LET repo_type == fix_detect_repo_type(repo_dir, repo_name)
        r == json_load(repo_dir.cfg)
        extends == dict_get(r.d, "extends", Str(<<>>))
        ok == fix_extends_ok(extends)
    IN IF ~ConfigExists(repo_dir)
       THEN IF dryrun THEN Returns("created", repo_dir)
            \* config_dir.mkdir(exist_ok=True) on a regular file
            ELSE IF repo_dir.claude = "file" THEN Raises("FileExistsError", repo_dir)
            ELSE Returns("created",
                         [repo_dir EXCEPT !.claude = "dir",
                                          !.cfg = json_dump(create_config(repo_name, repo_type))])
       ELSE IF r.exc = "JSONDecodeError" THEN Returns("error", repo_dir)
       ELSE IF r.exc # "none" THEN Raises(r.exc, repo_dir)
       ELSE IF ~r.isdict THEN Raises("AttributeError", repo_dir)
       ELSE IF ok = "TypeError" THEN Raises("TypeError", repo_dir)
       ELSE IF ok = "True" THEN Returns("ok", repo_dir)
       ELSE IF dryrun THEN Returns("fixed", repo_dir)
       ELSE Returns("fixed", [repo_dir EXCEPT !.cfg = json_dump(patch_extends(r.d))])

\* fix_repository writing in dry-run mode as well
fix_repository_writes_on_dry_run(repo_name, repo_dir, dryrun) ==
    IF repo_name = WorkspaceName THEN Returns("skipped", repo_dir)
    ELSE IF ~repo_dir.exists THEN Returns("not_cloned", repo_dir)
    ELSE create_or_fix(repo_name, repo_dir, FALSE)

fix_repository(repo_name, repo_dir, dryrun) ==
    IF repo_name = WorkspaceName THEN Returns("skipped", repo_dir)
    ELSE IF ~repo_dir.exists THEN Returns("not_cloned", repo_dir)
    ELSE create_or_fix(repo_name, repo_dir, dryrun)

----------------------------------------------------------------------------
(* Inputs of the single-repository harness *)

ExtendsValues ==
    {Str(BASE_CONFIG_URL),
     Str(<<"https://example.com/other.json">>),
     Str(<<>>),
     Str(<<"../", "workspace", "/.claude/", "base-project.json">>),
     Num("5"),
     List(<<"workspace", "base-project.json">>)}

ConfigMembers ==
    {<<"extends", x>> : x \in ExtendsValues} \cup {<<"version", Str(<<"1.0.0">>)>>}

ConfigFiles ==
    {NoFile, DirFile, GarbageFile, ScalarFile}
      \cup {ObjectFile(ms) : ms \in SeqsUpTo(ConfigMembers, MaxMembers)}

\* the .claude entry and the config file under it
ClaudeStates ==
    {<<"absent", NoFile>>, <<"file", NoFile>>} \cup {<<"dir", f>> : f \in ConfigFiles}

UnitListings ==
    {EmptyListing,
     [EmptyListing EXCEPT !.pyproject = TRUE],
     [EmptyListing EXCEPT !.pkg = GarbageFile]}

UnitDirs ==
    {NotCloned}
      \cup {[exists |-> TRUE, listing |-> l, claude |-> c[1], cfg |-> c[2]] :
               l \in UnitListings, c \in ClaudeStates}


----------------------------------------------------------------------------
(* Classifier harness: one listing, classified once *)

InitClassify ==
    /\ c_name \in Names
    /\ c_dir \in {Checkout(l) : l \in Listings}
    /\ c_type = "unset"

IdleClassify ==
    /\ c_name = WorkspaceName
    /\ c_dir = NotCloned
    /\ c_type = "unset"

Classify ==
    /\ UNCHANGED not_classify_vars
    /\ c_type = "unset"
    /\ c_type' = detect_repo_type(c_dir, c_name)
    /\ UNCHANGED <<c_name, c_dir>>

----------------------------------------------------------------------------
(* Single-repository harness: auditOne and fixOne called in any order on one
   repository, nothing else touching it *)

InitUnit ==
    /\ u_name \in Names
    /\ u_dir \in UnitDirs
    /\ u_before = u_dir
    /\ u_log = <<>>

IdleUnit ==
    /\ u_name = WorkspaceName
    /\ u_dir = NotCloned
    /\ u_before = NotCloned
    /\ u_log = <<>>

UnitAudit ==
    /\ UNCHANGED not_unit_vars
    /\ Len(u_log) < MaxCalls
    /\ u_log' = Append(u_log, [op |-> "audit", dry |-> FALSE,
                               out |-> check_config(u_name, u_dir).status,
                               exc |-> "none"])
    /\ u_before' = u_dir
    /\ UNCHANGED <<u_name, u_dir>>

UnitFix(d) ==
    /\ UNCHANGED not_unit_vars
    /\ Len(u_log) < MaxCalls
    /\ LET r == fix_repository(u_name, u_dir, d)
       IN /\ u_log' = Append(u_log, [op |-> "fix", dry |-> d, out |-> r.out,
                                     exc |-> r.exc])
          /\ u_dir' = r.dir
    /\ u_before' = u_dir
    /\ UNCHANGED u_name

----------------------------------------------------------------------------
(* The batch drivers *)

\* get_active_repos(): the organisation's active repositories, sorted
Repos == << <<"dgx-", "spark">>, <<"foo">>, WorkspaceName >>

NoReport == [exists |-> FALSE, summary |-> <<>>, results |-> <<>>]

CountStatus(rs, S) == Cardinality({i \in 1..Len(rs) : rs[i].status \in S})

\* the report the audit saves
audit_report(rs) ==
    [exists |-> TRUE,
     summary |-> [total |-> Len(Repos),
                  ok |-> CountStatus(rs, {"ok"}),
                  missing_config |-> CountStatus(rs, {"missing_config"}),
                  wrong_extends |-> CountStatus(rs, {"wrong_extends"}),
                  no_extends |-> CountStatus(rs, {"no_extends"}),
                  not_cloned |-> CountStatus(rs, {"not_cloned"}),
                  errors |-> CountStatus(rs, {"invalid_json", "error"})],
     results |-> rs]

\* the filter with its status test dropped
needs_fixing_any_status(r) == r.cloned

\* to_fix: r["status"] in [...] and r["cloned"]
needs_fixing(r) ==
    r.status \in {"missing_config", "wrong_extends", "no_extends"} /\ r.cloned

ZeroCounts == [fixed |-> 0, created |-> 0, error |-> 0, skipped |-> 0]

\* the counters after one result of fix_repository
count_result(c, result) ==
    CASE result = "created" -> [c EXCEPT !.created = @ + 1]
      [] result = "fixed" -> [c EXCEPT !.fixed = @ + 1]
      [] result = "error" -> [c EXCEPT !.error = @ + 1]
      [] result \in {"not_cloned", "skipped"} -> [c EXCEPT !.skipped = @ + 1]
      [] OTHER -> c

BatchConfigFiles ==
    {NoFile, GarbageFile, ScalarFile,
     ObjectFile(<<>>),
     ObjectFile(<< <<"version", Str(<<"1.0.0">>)>>,
                   <<"extends", Str(<<"https://example.com/other.json">>)>> >>),
     ObjectFile(<< <<"extends", Str(BASE_CONFIG_URL)>> >>)}

BatchDirs ==
    {NotCloned, Checkout(EmptyListing),
     [Checkout(EmptyListing) EXCEPT !.claude = "file"]}
      \cup {[Checkout(EmptyListing) EXCEPT !.claude = "dir", !.cfg = f] :
               f \in BatchConfigFiles}

\* the checkout of the workspace repository, which holds the report file
WorkspaceDirs ==
    {NotCloned, Checkout(EmptyListing),
     [Checkout(EmptyListing) EXCEPT !.claude = "dir", !.cfg = GarbageFile]}

DirsOf(n) == IF n = WorkspaceName THEN WorkspaceDirs ELSE BatchDirs

InitBatch ==
    /\ fs \in {f \in [Names -> BatchDirs \cup WorkspaceDirs] :
                  \A n \in Names : f[n] \in DirsOf(n)}
    /\ report = NoReport
    /\ pc = "idle"
    /\ results = <<>>
    /\ to_fix = <<>>
    /\ idx = 1
    /\ dry_run = FALSE
    /\ counts = ZeroCounts
    /\ calls = <<>>
    /\ exit_code = "none"
    /\ fs0 = fs
    /\ first_audit = <<>>
    /\ chain = "none"
    /\ fresh = FALSE
    /\ env_changes = 0

IdleBatch ==
    /\ fs = [n \in Names |-> NotCloned]
    /\ report = NoReport
    /\ pc = "idle"
    /\ results = <<>>
    /\ to_fix = <<>>
    /\ idx = 1
    /\ dry_run = FALSE
    /\ counts = ZeroCounts
    /\ calls = <<>>
    /\ exit_code = "none"
    /\ fs0 = fs
    /\ first_audit = <<>>
    /\ chain = "none"
    /\ fresh = FALSE
    /\ env_changes = 0

Stopped == pc \in {"idle", "aborted"}

\* python3 scripts/audit-claude-configs.py
AuditStart ==
    /\ UNCHANGED not_batch_vars
    /\ Stopped
    /\ pc' = "audit"
    /\ results' = <<>>
    /\ exit_code' = "running"
    /\ to_fix' = <<>>
    /\ idx' = 1
    /\ counts' = ZeroCounts
    /\ calls' = <<>>
    /\ fs0' = fs
    /\ UNCHANGED <<fs, report, dry_run, first_audit, chain, fresh, env_changes>>

\* one turn of the audit loop
AuditOne ==
    /\ UNCHANGED not_batch_vars
    /\ pc = "audit"
    /\ Len(results) < Len(Repos)
    /\ LET repo == Repos[Len(results) + 1]
       IN results' = Append(results, check_config(repo, fs[repo]))
    /\ UNCHANGED <<fs, report, pc, to_fix, idx, dry_run, counts, calls, exit_code,
                   fs0, first_audit, chain, fresh, env_changes>>

\* the report is written under the workspace checkout; open() fails without it
AuditSave ==
    /\ UNCHANGED not_batch_vars
    /\ pc = "audit"
    /\ Len(results) = Len(Repos)
    /\ IF fs[WorkspaceName].exists
       THEN /\ report' = audit_report(results)
            /\ exit_code' = "0"
            /\ fresh' = TRUE
            /\ chain' = IF chain = "fixed" THEN "reaudited" ELSE "none"
       ELSE /\ exit_code' = "traceback"
            /\ chain' = "none"
            /\ UNCHANGED <<report, fresh>>
    /\ pc' = "idle"
    /\ results' = <<>>
    /\ UNCHANGED <<fs, to_fix, idx, dry_run, counts, calls, fs0, first_audit,
                   env_changes>>

\* python3 scripts/fix-claude-configs.py [--dry-run], up to the loop
FixStart(d) ==
    /\ UNCHANGED not_batch_vars
    /\ Stopped
    /\ dry_run' = d
    /\ calls' = <<>>
    /\ counts' = ZeroCounts
    /\ idx' = 1
    /\ fs0' = fs
    /\ IF ~report.exists
       THEN /\ exit_code' = "1"
            /\ pc' = "idle"
            /\ to_fix' = <<>>
            /\ chain' = "none"
            /\ UNCHANGED first_audit
       ELSE /\ to_fix' = SelectSeq(report.results, needs_fixing)
            /\ pc' = IF to_fix' = <<>> THEN "idle" ELSE "fix"
            /\ exit_code' = IF to_fix' = <<>> THEN "0" ELSE "running"
            /\ chain' = IF fresh /\ ~d THEN "fixed" ELSE "none"
            /\ first_audit' = report.results
    /\ UNCHANGED <<fs, report, results, fresh, env_changes>>

\* one turn of the fix loop; an exception out of fix_repository ends the process
FixStep ==
    /\ UNCHANGED not_batch_vars
    /\ pc = "fix"
    /\ idx <= Len(to_fix)
    /\ LET repo_name == to_fix[idx].name
           r == fix_repository(repo_name, fs[repo_name], dry_run)
       IN /\ calls' = Append(calls, repo_name)
          /\ IF r.exc # "none"
             THEN /\ pc' = "aborted"
                  /\ exit_code' = "traceback"
                  /\ UNCHANGED <<fs, counts, idx>>
             ELSE /\ fs' = [fs EXCEPT ![repo_name] = r.dir]
                  /\ counts' = count_result(counts, r.out)
                  /\ idx' = idx + 1
                  /\ UNCHANGED <<pc, exit_code>>
    /\ UNCHANGED <<report, results, to_fix, dry_run, fs0, first_audit, chain,
                   fresh, env_changes>>

\* the summary after the loop
FixDone ==
    /\ UNCHANGED not_batch_vars
    /\ pc = "fix"
    /\ idx > Len(to_fix)
    /\ pc' = "idle"
    /\ exit_code' = "0"
    /\ to_fix' = <<>>
    /\ idx' = 1
    /\ counts' = ZeroCounts
    /\ calls' = <<>>
    /\ fs0' = fs
    /\ UNCHANGED <<fs, report, results, dry_run, first_audit, chain, fresh,
                   env_changes>>

\* somebody else changes one checkout between two runs
EnvChange(n, d) ==
    /\ UNCHANGED not_batch_vars
    /\ Stopped
    /\ report.exists
    /\ env_changes < MaxEnvChanges
    /\ d # fs[n]
    /\ fs' = [fs EXCEPT ![n] = d]
    /\ fs0' = fs'
    /\ env_changes' = env_changes + 1
    /\ fresh' = FALSE
    /\ chain' = "none"
    /\ report' = IF n = WorkspaceName /\ ~d.exists THEN NoReport ELSE report
    /\ pc' = "idle"
    /\ calls' = <<>>
    /\ to_fix' = <<>>
    /\ UNCHANGED <<results, idx, dry_run, counts, exit_code, first_audit>>

----------------------------------------------------------------------------
(* Specifications *)

Init == InitBatch /\ IdleUnit /\ IdleClassify

Next ==
    \/ AuditStart
    \/ AuditOne
    \/ AuditSave
    \/ \E d \in BOOLEAN : FixStart(d)
    \/ FixStep
    \/ FixDone
    \/ \E n \in Names : \E d \in DirsOf(n) : EnvChange(n, d)

\* the audit and fix runs over a filesystem of three repositories
Spec == Init /\ [][Next]_vars

InitU == InitUnit /\ IdleBatch /\ IdleClassify

NextU ==
    \/ UnitAudit
    \/ \E d \in BOOLEAN : UnitFix(d)

\* auditOne and fixOne on one repository
SpecUnit == InitU /\ [][NextU]_vars

InitC == InitClassify /\ IdleBatch /\ IdleUnit

NextC == Classify

\* the classifier on one listing
SpecClassify == InitC /\ [][NextC]_vars


----------------------------------------------------------------------------
(* Properties of the classifier (SpecClassify) *)

Manifest == c_dir.listing.pkg

\* the keys the manifest lists under a field: those of the object it holds there
ListedUnder(file, field) ==
    LET pkg == DictOfMembers(file.members)
    IN IF file.kind = "object" /\ DictHas(pkg, field) /\ DictAt(pkg, field).t = "obj"
       THEN ObjKeys(DictAt(pkg, field))
       ELSE {}

Listed(file) == ListedUnder(file, "dependencies") \cup ListedUnder(file, "devDependencies")

ExpectedNodeType(file) ==
    IF SdkKey \in Listed(file) THEN "mcp-integration"
    ELSE IF Listed(file) \cap DocsKeys # {} THEN "typescript-docs"
    ELSE "library"

\* dependencies and devDependencies, where the manifest has them, are objects
WellFormedDeps(file) ==
    file.kind = "object" =>
        \A field \in {"dependencies", "devDependencies"} :
            LET pkg == DictOfMembers(file.members)
            IN DictHas(pkg, field) => DictAt(pkg, field).t = "obj"

\* C10 as stated: a repository with a package.json at its root, whatever other
\* markers it has, is classified mcp-integration when the manifest lists the
\* SDK, typescript-docs when it lists vitepress or docusaurus and not the SDK,
\* library when it lists neither.
C10_AnyMarkers ==
    (c_type # "unset" /\ Manifest.kind # "absent")
        => c_type = ExpectedNodeType(Manifest)

\* C10 amended: the same, for a repository with a package.json and no
\* Cargo.toml at its root, whose dependencies and devDependencies (where
\* present) are JSON objects.
C10_NodeManifest ==
    (c_type # "unset" /\ Manifest.kind # "absent" /\ ~c_dir.listing.cargo
                      /\ WellFormedDeps(Manifest))
        => c_type = ExpectedNodeType(Manifest)

\* the SDK listed only under devDependencies, a docs generator under
\* dependencies, Python and mkdocs markers beside the manifest
C10_Witness ==
    /\ c_type = "mcp-integration"
    /\ SdkKey \in ListedUnder(Manifest, "devDependencies")
    /\ "vitepress" \in ListedUnder(Manifest, "dependencies")
    /\ c_dir.listing.pyproject
    /\ c_dir.listing.mkdocs
    /\ c_dir.listing.terraform = "dir"

----------------------------------------------------------------------------
(* Properties of auditOne and fixOne on one repository (SpecUnit) *)

Called == Len(u_log) > 0
Last == u_log[Len(u_log)]
NonDryFix(e) == e.op = "fix" /\ ~e.dry

AuditStatuses ==
    {"ok", "missing_config", "wrong_extends", "no_extends", "not_cloned",
     "workspace", "invalid_json", "error"}
FixOutcomes == {"skipped", "not_cloned", "created", "fixed", "ok", "error"}

\* the extends value a config file parses to (null when it has none)
ExtendsOf(file) == dict_get(json_load(file).d, "extends", Null)

\* C2 as stated: for any repository, fixOne then auditOne then fixOne, all
\* non-dry-run, yields ok on the second fixOne.
C2_AnyRepository ==
    \A i \in 1..Len(u_log) - 2 :
        (NonDryFix(u_log[i]) /\ u_log[i + 1].op = "audit" /\ NonDryFix(u_log[i + 2]))
            => u_log[i + 2].out = "ok"

\* C2 amended: once a non-dry-run fixOne has returned created, fixed or ok,
\* every later non-dry-run fixOne on that repository returns ok; once it has
\* returned skipped, not_cloned or error, every later one returns that again.
C2_Idempotent ==
    \A i \in 1..Len(u_log) : \A j \in 1..Len(u_log) :
        (i < j /\ NonDryFix(u_log[i]) /\ NonDryFix(u_log[j]))
            => /\ u_log[i].out \in {"created", "fixed", "ok"} => u_log[j].out = "ok"
               /\ u_log[i].out \in {"skipped", "not_cloned", "error"}
                    => u_log[j].out = u_log[i].out

\* fixOne created the config, auditOne found it ok, fixOne returned ok
C2_Witness ==
    /\ Len(u_log) = 3
    /\ NonDryFix(u_log[1]) /\ u_log[1].out = "created"
    /\ u_log[2].op = "audit" /\ u_log[2].out = "ok"
    /\ NonDryFix(u_log[3]) /\ u_log[3].out = "ok"

\* C3: where the non-dry-run fixOne returns created or fixed, the dry-run
\* fixOne on the same state leaves the checkout as it was and returns the same
\* label.
C3_DryRunFrame ==
    (Called /\ Last.op = "fix" /\ Last.dry)
        => LET wet == fix_repository(u_name, u_before, FALSE)
           IN (wet.exc = "none" /\ wet.out \in {"created", "fixed"})
                  => /\ u_dir = u_before
                     /\ Last.exc = "none"
                     /\ Last.out = wet.out

\* a dry run reported fixed on a config the real run would rewrite
C3_Witness ==
    /\ Called /\ Last.op = "fix" /\ Last.dry /\ Last.out = "fixed"
    /\ u_before.cfg.kind = "object"
    /\ u_dir = u_before
    /\ ExtendsOf(u_before.cfg) = Str(<<"https://example.com/other.json">>)

\* C4 as stated: auditOne reports the repository named workspace with status
\* workspace in every filesystem state, whether or not its directory exists.
C4_Always ==
    (Called /\ Last.op = "audit" /\ u_name = WorkspaceName)
        => Last.out = "workspace"

\* C4 amended: auditOne reports the repository named workspace with status
\* workspace whenever its directory exists, whatever its config file holds,
\* and with status not_cloned when the directory does not exist.
C4_WhenCloned ==
    (Called /\ Last.op = "audit" /\ u_name = WorkspaceName)
        => Last.out = IF u_before.exists THEN "workspace" ELSE "not_cloned"

\* the workspace checkout audited with no config file at all
C4_Witness ==
    /\ Called /\ Last.op = "audit" /\ u_name = WorkspaceName
    /\ u_before.exists /\ ~ConfigExists(u_before)
    /\ Last.out = "workspace"

\* C6: for a cloned repository other than workspace whose config file is not
\* valid JSON, auditOne returns invalid_json, fixOne returns error in dry-run
\* and non-dry-run mode, and fixOne leaves the file as it was.
C6_MalformedKept ==
    (Called /\ u_name # WorkspaceName /\ u_before.exists
            /\ u_before.claude = "dir" /\ u_before.cfg.kind = "garbage")
        => /\ Last.op = "audit" => Last.out = "invalid_json"
           /\ Last.op = "fix" => /\ Last.out = "error"
                                 /\ Last.exc = "none"
                                 /\ u_dir = u_before

\* a non-dry-run fixOne returned error on a malformed config
C6_Witness ==
    /\ Called /\ NonDryFix(Last) /\ Last.out = "error"
    /\ u_name # WorkspaceName
    /\ u_before.cfg.kind = "garbage"

\* C7: when a non-dry-run fixOne returns fixed, the config written parses to
\* the config read with extends set to the canonical URL: every other key is
\* there with its value, and no key but extends is added or removed.
C7_OnlyExtends ==
    (Called /\ NonDryFix(Last) /\ Last.out = "fixed")
        => LET old == json_load(u_before.cfg).d
               new == json_load(u_dir.cfg).d
           IN /\ u_dir.cfg.kind = "object"
              /\ DictKeys(new) = DictKeys(old) \cup {"extends"}
              /\ DictAt(new, "extends") = Str(BASE_CONFIG_URL)
              /\ \A k \in DictKeys(old) \ {"extends"} : DictAt(new, k) = DictAt(old, k)

\* a config with a version and a foreign extends was fixed
C7_Witness ==
    /\ Called /\ NonDryFix(Last) /\ Last.out = "fixed"
    /\ DictHas(json_load(u_before.cfg).d, "version")
    /\ ExtendsOf(u_before.cfg) = Str(<<"https://example.com/other.json">>)
    /\ u_dir # u_before

\* a cloned repository other than workspace whose config parses to an object
ParsedConfig(name, dir) ==
    /\ name # WorkspaceName
    /\ ConfigExists(dir)
    /\ dir.cfg.kind = "object"

\* C8 as stated: auditOne gives status ok, and fixOne returns ok, only if
\* extends equals the canonical base-config URL; any other extends value is
\* classified wrong_extends or no_extends and rewritten by a non-dry-run fix.
C8_OkMeansCanonical ==
    (Called /\ ParsedConfig(u_name, u_before)
            /\ ExtendsOf(u_before.cfg) # Str(BASE_CONFIG_URL))
        => /\ Last.out # "ok"
           /\ Last.op = "audit" => Last.out \in {"wrong_extends", "no_extends"}
           /\ Last.op = "fix" => Last.out = "fixed"
           /\ NonDryFix(Last) => ExtendsOf(u_dir.cfg) = Str(BASE_CONFIG_URL)

\* C9 as stated: in every repository state auditOne returns one of its
\* statuses and fixOne returns one of its six outcomes.
C9_AlwaysReturns ==
    \A i \in 1..Len(u_log) :
        /\ u_log[i].exc = "none"
        /\ u_log[i].op = "audit" => u_log[i].out \in AuditStatuses
        /\ u_log[i].op = "fix" => u_log[i].out \in FixOutcomes

----------------------------------------------------------------------------
(* Properties of the audit and fix runs (Spec) *)

Fixable == {"missing_config", "wrong_extends", "no_extends"}

\* C1 as stated: after an audit run, a non-dry-run fix run over its report
\* and a second audit run, with no other change of the filesystem, every
\* repository the first audit found missing_config, wrong_extends or
\* no_extends is ok in the second, and a config created for a missing one
\* extends the canonical URL.
C1_Converges ==
    chain = "reaudited"
        => \A i \in 1..Len(first_audit) :
               first_audit[i].status \in Fixable
                   => /\ report.results[i].status = "ok"
                      /\ first_audit[i].status = "missing_config"
                            => ExtendsOf(fs[first_audit[i].name].cfg) = Str(BASE_CONFIG_URL)

\* the records of the report the fix run is to work on
InFilter(r) == r.status \in Fixable /\ r.cloned = TRUE
Selected == SelectSeq(report.results, InFilter)
SelectedNames == {Selected[k].name : k \in 1..Len(Selected)}

\* C5: a fix run calls fixOne only for the report's records with a fixable
\* status and cloned set, in report order, and leaves the checkout of every
\* other repository, and of workspace, as it was when the run began, also when
\* the filesystem has changed since the audit.
C5_WritesInsideFilter ==
    pc \in {"fix", "aborted"}
        => /\ Len(calls) <= Len(Selected)
           /\ \A k \in 1..Len(calls) : calls[k] = Selected[k].name
           /\ \A n \in Names :
                  (n = WorkspaceName \/ n \notin SelectedNames) => fs[n] = fs0[n]

\* a run that has rewritten one checkout and is through, while the report,
\* stale by now, calls ok a repository fixOne would have rewritten
C5_Witness ==
    /\ pc = "fix" /\ idx > Len(to_fix) /\ ~dry_run
    /\ Len(calls) = 1
    /\ fs # fs0
    /\ \E n \in Names \ SelectedNames :
           /\ n # WorkspaceName
           /\ fix_repository(n, fs[n], FALSE).dir # fs[n]

============================================================================
